---- MODULE Spec2Model ----
(***************************************************************************)
(* KitchenSagePy: the Paprika HTML recipe scraper                          *)
(* (app/scrapers/paprika_scraper.py) and the meal-plan ingredient          *)
(* consolidation (app/models.py, MealPlan.all_ingredients).                *)
(*                                                                         *)
(* Text is a sequence of characters; a character is a one-element string   *)
(* ("a", "2", " ") or a named token for a character that has no plain      *)
(* spelling here ("TAB", "SUP2" for U+00B2 SUPERSCRIPT TWO).               *)
(* Python's None, where a string is expected, is the text NoneStr.         *)
(***************************************************************************)
EXTENDS Integers, Sequences, FiniteSets, TLC

VARIABLES doc, result,
          recipes, ri, ii, ingredients_dict, cons_pc, cons_out,
          argv, ai, ei, success_count, db, stdout, batch_pc, exit_status,
          tables, last, calls, sessions

scrapeVars == <<doc, result>>
consVars == <<recipes, ri, ii, ingredients_dict, cons_pc, cons_out>>
batchVars == <<argv, ai, ei, success_count, db, stdout, batch_pc, exit_status>>
storeVars == <<tables, last, calls, sessions>>
vars == <<scrapeVars, consVars, batchVars, storeVars>>

----------------------------------------------------------------------------
(* Python str operations, computed as the interpreter computes them.       *)

NoneStr == <<"<None>">>

\* str.strip() with no argument removes these (the ones the inputs use).
WhitespaceChars == {" ", "TAB"}

\* str.isdigit() is true of the ASCII digits and also of characters whose
\* Unicode property is Digit without being Decimal, such as U+00B2.
AsciiDigits == {"0", "1", "2", "3", "4", "5", "6", "7", "8", "9"}
SuperscriptDigits == {"SUP2"}

DigitValue(c) ==
    CASE c = "0" -> 0 [] c = "1" -> 1 [] c = "2" -> 2 [] c = "3" -> 3
      [] c = "4" -> 4 [] c = "5" -> 5 [] c = "6" -> 6 [] c = "7" -> 7
      [] c = "8" -> 8 [] c = "9" -> 9

DigitChar(n) ==
    CASE n = 0 -> "0" [] n = 1 -> "1" [] n = 2 -> "2" [] n = 3 -> "3"
      [] n = 4 -> "4" [] n = 5 -> "5" [] n = 6 -> "6" [] n = 7 -> "7"
      [] n = 8 -> "8" [] n = 9 -> "9"

RECURSIVE LStrip(_)
LStrip(s) ==
    IF s # <<>> /\ Head(s) \in WhitespaceChars THEN LStrip(Tail(s)) ELSE s

RECURSIVE RStrip(_)
RStrip(s) ==
    IF s # <<>> /\ s[Len(s)] \in WhitespaceChars
    THEN RStrip(SubSeq(s, 1, Len(s) - 1))
    ELSE s

\* s.strip()
Strip(s) == RStrip(LStrip(s))

\* The least index at which sub occurs in s, 0 when it does not (s.find(sub) + 1).
FindFirst(s, sub) ==
    LET hits == {i \in 1..(Len(s) - Len(sub) + 1) : SubSeq(s, i, i + Len(sub) - 1) = sub}
    IN  IF hits = {} THEN 0 ELSE CHOOSE i \in hits : \A j \in hits : i <= j

\* s.replace(old, "", 1): the first occurrence of old is removed; an empty old
\* or an old that does not occur leaves s as it is.
ReplaceFirst(s, old) ==
    LET i == FindFirst(s, old)
    IN  IF old = <<>> \/ i = 0
        THEN s
        ELSE SubSeq(s, 1, i - 1) \o SubSeq(s, i + Len(old), Len(s))

\* s.split(" ", 1): cut at the first SPACE character only, at most two parts.
SplitSpaceOnce(s) ==
    LET i == FindFirst(s, <<" ">>)
    IN  IF i = 0 THEN <<s>> ELSE <<SubSeq(s, 1, i - 1), SubSeq(s, i + 1, Len(s))>>

LowerChar(c) ==
    CASE c = "F" -> "f" [] c = "L" -> "l" [] c = "O" -> "o" [] c = "U" -> "u"
      [] c = "R" -> "r" [] c = "S" -> "s" [] c = "A" -> "a" [] c = "T" -> "t"
      [] OTHER -> c

\* s.lower()
Lower(s) == [i \in 1..Len(s) |-> LowerChar(s[i])]

\* s.isdigit(): at least one character and every character a digit.
IsDigit(s) == s # <<>> /\ \A i \in 1..Len(s) : s[i] \in AsciiDigits \cup SuperscriptDigits

\* float(s) accepts the decimal digits; on U+00B2 it raises ValueError.
FloatRaises(s) == \E i \in 1..Len(s) : s[i] \notin AsciiDigits

RECURSIVE FloatValue(_)
FloatValue(s) ==
    IF s = <<>> THEN 0 ELSE 10 * FloatValue(SubSeq(s, 1, Len(s) - 1)) + DigitValue(s[Len(s)])

RECURSIVE IntDigits(_)
IntDigits(n) ==
    IF n < 10 THEN <<DigitChar(n)>> ELSE IntDigits(n \div 10) \o <<DigitChar(n % 10)>>

\* str(x) of a float x holding a whole number (below 1e16): "3.0".
FloatStr(n) == IntDigits(n) \o <<".", "0">>

\* Python truthiness of an Optional[str]: None and "" are false.
Truthy(s) == s # NoneStr /\ s # <<>>

\* c repeated n times.
Rep(c, n) == [i \in 1..n |-> c]

----------------------------------------------------------------------------
(* The document.  BeautifulSoup's tree is reduced to what the scraper      *)
(* looks up: whether div.recipe exists, and the elements the extractors    *)
(* search for.  An absent element is NoneStr (for an element of which      *)
(* only the text is read) or a record with present = FALSE.                *)
(* An ingredient line <p class="line" itemprop="recipeIngredient"> is      *)
(* [has_strong, before, strong, after]: the text before its first <strong> *)
(* descendant, that descendant's text, and the text after it.              *)

\* int(s) of the rating attribute: surrounding whitespace is ignored, one
\* sign is allowed, the rest must be decimal digits; otherwise ValueError.
IntBody(s) ==
    LET t == Strip(s)
    IN  IF t # <<>> /\ Head(t) \in {"-", "+"} THEN Tail(t) ELSE t

IntRaises(s) ==
    LET b == IntBody(s)
    IN  b = <<>> \/ \E i \in 1..Len(b) : b[i] \notin AsciiDigits

IntValue(s) ==
    LET t == Strip(s)
    IN  IF Head(t) = "-" THEN 0 - FloatValue(IntBody(s)) ELSE FloatValue(IntBody(s))

\* The literal of paprika_scraper.py line 59 as the file spells it: the three
\* characters U+00E2 U+02DC U+2026, not the one character U+2605 BLACK STAR.
StarLiteral == <<"U+00E2", "U+02DC", "U+2026">>

\* s.count(sub): occurrences counted from the left without overlap.
RECURSIVE Count(_, _)
Count(s, sub) ==
    LET i == FindFirst(s, sub)
    IN  IF i = 0 THEN 0 ELSE 1 + Count(SubSeq(s, i + Len(sub), Len(s)), sub)

\* s.split(","): always at least one part.
RECURSIVE SplitComma(_)
SplitComma(s) ==
    LET i == FindFirst(s, <<",">>)
    IN  IF i = 0
        THEN <<s>>
        ELSE <<SubSeq(s, 1, i - 1)>> \o SplitComma(SubSeq(s, i + 1, Len(s)))

\* element.text of an ingredient line: all of its text, the <strong> included.
ElementText(element) ==
    element.before \o (IF element.has_strong THEN element.strong ELSE <<>>) \o element.after

HeaderLenThreshold == 30
UnitLenThreshold == 10

\* The two dictionaries _extract_ingredients appends; a key a dictionary does
\* not have is NoneStr here.
HeaderEntry(text) ==
    [type |-> "header", text |-> text,
     quantity |-> NoneStr, unit |-> NoneStr, name |-> NoneStr]

IngredientEntry(quantity, unit, name) ==
    [type |-> "ingredient", text |-> NoneStr,
     quantity |-> quantity, unit |-> unit, name |-> name]

\* Lines 103-121: the quantity/unit/name split of a line that is not a header.
ParseIngredient(element) ==
    LET text0 == Strip(ElementText(element))
        quantity == IF element.has_strong THEN Strip(element.strong) ELSE <<>>
        text == IF element.has_strong
                THEN Strip(ReplaceFirst(text0, quantity))
                ELSE text0
        parts == SplitSpaceOnce(text)
        unit == IF Len(parts) > 1 /\ Len(parts[1]) < UnitLenThreshold
                THEN parts[1] ELSE <<>>
        name == IF Len(parts) > 1 /\ unit # <<>> THEN parts[2] ELSE text
    IN  IngredientEntry(quantity, unit, Strip(name))

\* Is the line taken for a section header (line 94)?  A Tag is always true,
\* so `not element.find('strong')` holds exactly when there is no <strong>.
IsSectionHeaderByLength(element) ==
    Len(Strip(ElementText(element))) < HeaderLenThreshold

IsSectionHeaderInclusive(element) ==
    ~element.has_strong /\ Len(Strip(ElementText(element))) <= HeaderLenThreshold

IsSectionHeader(element) ==
    ~element.has_strong /\ Len(Strip(ElementText(element))) < HeaderLenThreshold

\* The body of the loop of lines 90-121: what one line appends (nothing, or
\* one entry).
ClassifyLine(element) ==
    IF IsSectionHeader(element)
    THEN IF Strip(ElementText(element)) # <<>>
         THEN <<HeaderEntry(Strip(ElementText(element)))>>
         ELSE <<>>
    ELSE <<ParseIngredient(element)>>

RECURSIVE ExtractLinesPrepending(_)
ExtractLinesPrepending(elements) ==
    IF elements = <<>>
    THEN <<>>
    ELSE ExtractLinesPrepending(Tail(elements)) \o ClassifyLine(Head(elements))

RECURSIVE ExtractLines(_)
ExtractLines(elements) ==
    IF elements = <<>>
    THEN <<>>
    ELSE ClassifyLine(Head(elements)) \o ExtractLines(Tail(elements))

_extract_name_none(d) == IF d.name = NoneStr THEN NoneStr ELSE Strip(d.name)

_extract_name(d) == IF d.name = NoneStr THEN <<>> ELSE Strip(d.name)

\* [raises, value]: int() of the attribute may raise ValueError.
_extract_rating_glyphs_first(d) ==
    IF ~d.rating.present
    THEN [raises |-> FALSE, value |-> 0]
    ELSE IF d.rating.text # <<>> \/ ~d.rating.has_value
         THEN [raises |-> FALSE, value |-> Count(d.rating.text, StarLiteral)]
         ELSE IF IntRaises(d.rating.value)
              THEN [raises |-> TRUE, value |-> 0]
              ELSE [raises |-> FALSE, value |-> IntValue(d.rating.value)]

_extract_rating(d) ==
    IF ~d.rating.present
    THEN [raises |-> FALSE, value |-> 0]
    ELSE IF d.rating.has_value
         THEN IF IntRaises(d.rating.value)
              THEN [raises |-> TRUE, value |-> 0]
              ELSE [raises |-> FALSE, value |-> IntValue(d.rating.value)]
         ELSE [raises |-> FALSE, value |-> Count(d.rating.text, StarLiteral)]

_extract_categories(d) ==
    IF d.categories = NoneStr
    THEN <<>>
    ELSE LET parts == SplitComma(Strip(d.categories))
         IN  [i \in 1..Len(parts) |-> Strip(parts[i])]

_extract_source(d) == IF d.source = NoneStr THEN NoneStr ELSE Strip(d.source)

_extract_ingredients(d) ==
    IF ~d.ingredients.present THEN <<>> ELSE ExtractLines(d.ingredients.lines)

_extract_directions(d) ==
    IF ~d.directions.present
    THEN <<>>
    ELSE [i \in 1..Len(d.directions.lines) |-> Strip(d.directions.lines[i])]

\* What extract_recipe gives: status "ok" and the record (a one-element
\* sequence, made by RecordOf), or status "ValueError" and no record.
NoRecipeFound == "No recipe found in the provided HTML"
InvalidLiteral == "invalid literal for int()"

RecordOf(d) ==
    [name |-> _extract_name(d),
     rating |-> _extract_rating(d).value,
     categories |-> _extract_categories(d),
     source |-> _extract_source(d),
     ingredients |-> _extract_ingredients(d),
     directions |-> _extract_directions(d)]

extract_recipe_unchecked(d) ==
    IF _extract_rating(d).raises
    THEN [status |-> "ValueError", message |-> InvalidLiteral, record |-> <<>>]
    ELSE [status |-> "ok", message |-> "", record |-> <<RecordOf(d)>>]

extract_recipe(d) ==
    IF ~d.recipe_div
    THEN [status |-> "ValueError", message |-> NoRecipeFound, record |-> <<>>]
    ELSE IF _extract_rating(d).raises
         THEN [status |-> "ValueError", message |-> InvalidLiteral, record |-> <<>>]
         ELSE [status |-> "ok", message |-> "", record |-> <<RecordOf(d)>>]

NotRun == [status |-> "not_run", message |-> "", record |-> <<>>]

----------------------------------------------------------------------------
(* MealPlan.all_ingredients.  An Ingredient row is [name, quantity, unit,  *)
(* is_header]; quantity and unit are nullable columns.  ingredients_dict   *)
(* is a Python dict, which keeps insertion order: a sequence of            *)
(* [key, value] pairs with distinct keys.                                  *)

\* if ingredient.is_header: (line 121; the column is an integer)
IsHeaderAlwaysFalse(ingredient) == FALSE

IsHeader(ingredient) == ingredient.is_header # 0

\* key = (ingredient.name.lower(), ingredient.unit)
KeyOfCased(ingredient) == <<ingredient.name, ingredient.unit>>

KeyOfNameOnly(ingredient) == <<Lower(ingredient.name), NoneStr>>

KeyOf(ingredient) == <<Lower(ingredient.name), ingredient.unit>>

\* The position of key in the dictionary, 0 when it is not a key of it.
KeyIndex(d, key) ==
    IF \E i \in 1..Len(d) : d[i].key = key
    THEN CHOOSE i \in 1..Len(d) : d[i].key = key
    ELSE 0

\* Lines 129-130: are both quantities there and accepted by isdigit()?
BothDigits(existing, incoming) ==
    /\ Truthy(incoming) /\ IsDigit(incoming)
    /\ Truthy(existing) /\ IsDigit(existing)

\* Lines 131-133: str(float(existing) + float(incoming)).
SumQuantity(existing, incoming) == FloatStr(FloatValue(existing) + FloatValue(incoming))

\* Lines 129-133 on the quantity of the entry found under the key: the
\* quantity the entry has afterwards, and whether float() raised ValueError
\* (the entry is then as it was: the exception comes before the assignment).
MergeQuantityOverwrite(existing, incoming) ==
    IF BothDigits(existing, incoming)
    THEN IF FloatRaises(existing) \/ FloatRaises(incoming)
         THEN [quantity |-> existing, raises |-> TRUE]
         ELSE [quantity |-> SumQuantity(existing, incoming), raises |-> FALSE]
    ELSE [quantity |-> incoming, raises |-> FALSE]

MergeQuantity(existing, incoming) ==
    IF BothDigits(existing, incoming)
    THEN IF FloatRaises(existing) \/ FloatRaises(incoming)
         THEN [quantity |-> existing, raises |-> TRUE]
         ELSE [quantity |-> SumQuantity(existing, incoming), raises |-> FALSE]
    ELSE [quantity |-> existing, raises |-> FALSE]

\* Lines 135-139: the entry of a key that is new goes to the end of the dict.
InsertEntryFirst(d, key, ingredient) ==
    <<[key |-> key,
       value |-> [name |-> ingredient.name,
                  quantity |-> ingredient.quantity,
                  unit |-> ingredient.unit]]>> \o d

InsertEntry(d, key, ingredient) ==
    Append(d, [key |-> key,
               value |-> [name |-> ingredient.name,
                          quantity |-> ingredient.quantity,
                          unit |-> ingredient.unit]])

\* The body of the inner loop (lines 120-139) on dictionary d: the dictionary
\* after it, and whether ValueError left it.
LoopBody(d, ingredient) ==
    LET key == KeyOf(ingredient)
        k == KeyIndex(d, key)
    IN  IF IsHeader(ingredient)
        THEN [dict |-> d, raises |-> FALSE]
        ELSE IF k # 0
             THEN LET m == MergeQuantity(d[k].value.quantity, ingredient.quantity)
                  IN  [dict |-> [d EXCEPT ![k].value.quantity = m.quantity],
                       raises |-> m.raises]
             ELSE [dict |-> InsertEntry(d, key, ingredient), raises |-> FALSE]

\* list(ingredients_dict.values())
Values(d) == [i \in 1..Len(d) |-> d[i].value]

\* The two nested loops over rs (a list of recipes, each a list of rows),
\* started on dictionary d.
RECURSIVE RunLoops(_, _)
RunLoops(d, rs) ==
    IF rs = <<>>
    THEN [dict |-> d, raises |-> FALSE]
    ELSE IF Head(rs) = <<>>
         THEN RunLoops(d, Tail(rs))
         ELSE LET r == LoopBody(d, Head(Head(rs)))
              IN  IF r.raises
                  THEN r
                  ELSE RunLoops(r.dict, <<Tail(Head(rs))>> \o Tail(rs))

\* The property as a function of the meal plan's recipes: the list returned,
\* or raises = TRUE when ValueError leaves it.
all_ingredients(rs) ==
    LET r == RunLoops(<<>>, rs)
    IN  [raises |-> r.raises, out |-> IF r.raises THEN <<>> ELSE Values(r.dict)]

----------------------------------------------------------------------------
(* The inputs.                                                             *)

\* The longest list of ingredient lines of a document.
MaxLines == 2

\* <strong>2</strong> cups flour
LineCupsFlour ==
    [has_strong |-> TRUE, before |-> <<>>, strong |-> <<"2">>, after |-> <<" ", "c", "u", "p", "s", " ", "f", "l", "o", "u", "r">>]

\* flour
LinePlainFlour ==
    [has_strong |-> FALSE, before |-> <<>>, strong |-> <<>>, after |-> <<"f", "l", "o", "u", "r">>]

\* two spaces only
LineBlank ==
    [has_strong |-> FALSE, before |-> <<>>, strong |-> <<>>, after |-> <<" ", " ">>]

\* 29 characters, no <strong>
LinePlain29 ==
    [has_strong |-> FALSE, before |-> <<>>, strong |-> <<>>, after |-> Rep("x", 29)]

\* "cups " and 25 more: 30 characters, no <strong>
LinePlain30 ==
    [has_strong |-> FALSE, before |-> <<>>, strong |-> <<>>, after |-> <<"c", "u", "p", "s", " ">> \o Rep("x", 25)]

\* 31 characters without a space, no <strong>
LinePlain31 ==
    [has_strong |-> FALSE, before |-> <<>>, strong |-> <<>>, after |-> Rep("x", 31)]

\* <strong></strong>salt
LineEmptyStrong ==
    [has_strong |-> TRUE, before |-> <<>>, strong |-> <<>>, after |-> <<"s", "a", "l", "t">>]

\* <strong>2</strong>
LineOnlyQuantity ==
    [has_strong |-> TRUE, before |-> <<>>, strong |-> <<"2">>, after |-> <<>>]

\* <strong>1</strong> tablespoon butter (a first word of 10)
LineTablespoon ==
    [has_strong |-> TRUE, before |-> <<>>, strong |-> <<"1">>, after |-> <<" ", "t", "a", "b", "l", "e", "s", "p", "o", "o", "n", " ", "b", "u", "t", "t", "e", "r">>]

\* <strong>1</strong> teaspoons salt (a first word of 9)
LineTeaspoons ==
    [has_strong |-> TRUE, before |-> <<>>, strong |-> <<"1">>, after |-> <<" ", "t", "e", "a", "s", "p", "o", "o", "n", "s", " ", "s", "a", "l", "t">>]

\* <strong>2</strong> cups<TAB>flour
LineTab ==
    [has_strong |-> TRUE, before |-> <<>>, strong |-> <<"2">>, after |-> <<" ", "c", "u", "p", "s", "TAB", "f", "l", "o", "u", "r">>]

\* <strong>2</strong> cups  flour
LineTwoSpaces ==
    [has_strong |-> TRUE, before |-> <<>>, strong |-> <<"2">>, after |-> <<" ", "c", "u", "p", "s", " ", " ", "f", "l", "o", "u", "r">>]

\* 2x <strong>2</strong> eggs
LineEarlierDigit ==
    [has_strong |-> TRUE, before |-> <<"2", "x", " ">>, strong |-> <<"2">>, after |-> <<" ", "e", "g", "g", "s">>]

\* <strong> 2 </strong>cups flour
LinePaddedStrong ==
    [has_strong |-> TRUE, before |-> <<>>, strong |-> <<" ", "2", " ">>, after |-> <<"c", "u", "p", "s", " ", "f", "l", "o", "u", "r">>]

LineElements ==
    {LineCupsFlour,
     LinePlainFlour,
     LineBlank,
     LinePlain29,
     LinePlain30,
     LinePlain31,
     LineEmptyStrong,
     LineOnlyQuantity,
     LineTablespoon,
     LineTeaspoons,
     LineTab,
     LineTwoSpaces,
     LineEarlierDigit,
     LinePaddedStrong}

\* The sequences over S of length at most n.
SeqsUpTo(S, n) == UNION {[1..k -> S] : k \in 0..n}

IngredientContainers(S) ==
    {[present |-> FALSE, lines |-> <<>>]}
    \cup {[present |-> TRUE, lines |-> ls] : ls \in SeqsUpTo(S, MaxLines)}

\* h1.name: absent, or " Pie ".
NameElements == {NoneStr, <<" ", "P", "i", "e", " ">>}

\* p.rating: absent; value="4" over three black stars; the attribute absent
\* and three black stars, or two occurrences of the literal of line 59, or an
\* empty text; value="-1", "4.5" and "".
RatingElement(has_value, value, text) ==
    [present |-> TRUE, has_value |-> has_value, value |-> value, text |-> text]

RatingElements ==
    {[present |-> FALSE, has_value |-> FALSE, value |-> <<>>, text |-> <<>>],
     RatingElement(TRUE, <<"4">>, <<"U+2605", "U+2605", "U+2605">>),
     RatingElement(FALSE, <<>>, <<"U+2605", "U+2605", "U+2605">>),
     RatingElement(FALSE, <<>>, <<"U+00E2", "U+02DC", "U+2026", "U+00E2", "U+02DC", "U+2026">>),
     RatingElement(FALSE, <<>>, <<>>),
     RatingElement(TRUE, <<"-", "1">>, <<>>),
     RatingElement(TRUE, <<"4", ".", "5">>, <<>>),
     RatingElement(TRUE, <<>>, <<>>)}

\* p.categories: absent, empty, "Dessert, Baking", " Main ".
CategoriesElements == {NoneStr, <<>>, <<"D", "e", "s", "s", "e", "r", "t", ",", " ", "B", "a", "k", "i", "n", "g">>, <<" ", "M", "a", "i", "n", " ">>}

\* span[itemprop=author]: absent, or "Mom".
SourceElements == {NoneStr, <<"M", "o", "m">>}

\* div[itemprop=recipeInstructions]: absent, without lines, or the two lines
\* "1. Mix" and " Bake ".
DirectionContainers ==
    {[present |-> FALSE, lines |-> <<>>],
     [present |-> TRUE, lines |-> <<>>],
     [present |-> TRUE, lines |-> <<<<"1", ".", " ", "M", "i", "x">>, <<" ", "B", "a", "k", "e", " ">>>>]}

\* The documents: every list of ingredient lines with the other elements as
\* in a plain export, and every combination of the other elements with one
\* ingredient line; each with and without div.recipe.
PlainDocument ==
    [recipe_div |-> TRUE, name |-> <<"P", "i", "e">>,
     rating |-> RatingElement(FALSE, <<>>, <<>>),
     categories |-> <<"D", "e", "s", "s", "e", "r", "t">>, source |-> NoneStr,
     ingredients |-> [present |-> TRUE, lines |-> <<LineCupsFlour>>],
     directions |-> [present |-> TRUE, lines |-> <<>>]]

\* div.recipe with nothing in it.
BareDocument ==
    [recipe_div |-> TRUE, name |-> NoneStr,
     rating |-> [present |-> FALSE, has_value |-> FALSE, value |-> <<>>, text |-> <<>>],
     categories |-> NoneStr, source |-> NoneStr,
     ingredients |-> [present |-> FALSE, lines |-> <<>>],
     directions |-> [present |-> FALSE, lines |-> <<>>]]

Documents(S) ==
    {BareDocument} \cup
    {[PlainDocument EXCEPT !.recipe_div = b, !.ingredients = c] :
        b \in BOOLEAN, c \in IngredientContainers(S)}
    \cup {[PlainDocument EXCEPT !.recipe_div = b, !.name = n, !.rating = r,
                                !.categories = cs, !.source = s, !.directions = ds] :
            b \in BOOLEAN, n \in NameElements, r \in RatingElements,
            cs \in CategoriesElements, s \in SourceElements, ds \in DirectionContainers}

\* The most ingredient rows of a meal plan's recipes together, and the most
\* recipes of a meal plan.
MaxItems == 3
MaxRecipes == 3

\* Flour, "2", cups
RowFlour2Cups ==
    [name |-> <<"F", "l", "o", "u", "r">>, quantity |-> <<"2">>, unit |-> <<"c", "u", "p", "s">>, is_header |-> 0]

\* flour, "1", cups
RowFlour1Cups ==
    [name |-> <<"f", "l", "o", "u", "r">>, quantity |-> <<"1">>, unit |-> <<"c", "u", "p", "s">>, is_header |-> 0]

\* flour, "1/2", cups
RowFlourHalfCups ==
    [name |-> <<"f", "l", "o", "u", "r">>, quantity |-> <<"1", "/", "2">>, unit |-> <<"c", "u", "p", "s">>, is_header |-> 0]

\* FLOUR, no quantity, cups
RowFlourNoQuantity ==
    [name |-> <<"F", "L", "O", "U", "R">>, quantity |-> NoneStr, unit |-> <<"c", "u", "p", "s">>, is_header |-> 0]

\* flour, "", no unit
RowFlourEmptyQuantity ==
    [name |-> <<"f", "l", "o", "u", "r">>, quantity |-> <<>>, unit |-> NoneStr, is_header |-> 0]

\* Flour, "1", no unit
RowFlour1NoUnit ==
    [name |-> <<"F", "l", "o", "u", "r">>, quantity |-> <<"1">>, unit |-> NoneStr, is_header |-> 0]

\* flour, U+00B2, cups
RowFlourSup2Cups ==
    [name |-> <<"f", "l", "o", "u", "r">>, quantity |-> <<"SUP2">>, unit |-> <<"c", "u", "p", "s">>, is_header |-> 0]

\* a header line named flour with quantity "1" and unit cups
RowHeaderFlour ==
    [name |-> <<"f", "l", "o", "u", "r">>, quantity |-> <<"1">>, unit |-> <<"c", "u", "p", "s">>, is_header |-> 1]

IngredientRows ==
    {RowFlour2Cups,
     RowFlour1Cups,
     RowFlourHalfCups,
     RowFlourNoQuantity,
     RowFlourEmptyQuantity,
     RowFlour1NoUnit,
     RowFlourSup2Cups,
     RowHeaderFlour}

\* The recipe lists made of the rows flat, in order, cut into n recipes: row i
\* goes to recipe cut[i], and cut does not decrease.
CutInto(flat, n, cut) ==
    [r \in 1..n |->
        LET before == Cardinality({i \in 1..Len(flat) : cut[i] < r})
            here == Cardinality({i \in 1..Len(flat) : cut[i] = r})
        IN  [j \in 1..here |-> flat[before + j]]]

\* The ways to cut k rows into n recipes none of which is empty.
Cuts(k, n) ==
    {c \in [1..k -> 1..n] :
        /\ \A i \in 1..k, j \in 1..k : i <= j => c[i] <= c[j]
        /\ \A r \in 1..n : \E i \in 1..k : c[i] = r}

\* The meal plans' recipe lists over the rows of S: up to MaxRecipes recipes
\* without rows, and every list of up to MaxItems rows cut into up to
\* MaxRecipes recipes with rows.
RecipeLists(S) ==
    {[r \in 1..n |-> <<>>] : n \in 0..MaxRecipes}
    \cup UNION {UNION {{CutInto(flat, n, cut) : flat \in [1..k -> S], cut \in Cuts(k, n)} :
                        n \in 1..MaxRecipes} :
                k \in 1..MaxItems}

----------------------------------------------------------------------------
(* Importing one file: crud.import_recipe_from_file and crud.create_recipe. *)
(* The store holds the recipe rows and the category names; a file is its   *)
(* document, whether it can be read, whether its name ends in .html and    *)
(* whether the database refuses the commit of its recipe.                  *)

File(d, readable, html, commit_fails) ==
    [doc |-> d, readable |-> readable, html |-> html, commit_fails |-> commit_fails]

\* A recipe whose instruction lines are "3. Go", " " and "1 Mix ".
NumberedDocument ==
    [PlainDocument EXCEPT
        !.rating = RatingElement(TRUE, <<"4">>, <<"U+2605", "U+2605", "U+2605">>),
        !.directions = [present |-> TRUE,
                        lines |-> <<<<"3", ".", " ", "G", "o">>, <<" ">>,
                                    <<"1", " ", "M", "i", "x", " ">>>>]]

\* pie.html; noroot.html without div.recipe; locked.html that open() refuses;
\* main.html whose commit the database refuses; notes.txt, a bare recipe
\* whose name does not end in .html.
FilePie == File(NumberedDocument, TRUE, TRUE, FALSE)
FileNoRoot == File([PlainDocument EXCEPT !.recipe_div = FALSE], TRUE, TRUE, FALSE)
FileLocked == File(PlainDocument, FALSE, TRUE, FALSE)
FileMain ==
    File([PlainDocument EXCEPT !.categories = <<" ", "M", "a", "i", "n", " ">>],
         TRUE, TRUE, TRUE)
FileNotes == File(BareDocument, TRUE, FALSE, FALSE)

Files == {FilePie, FileNoRoot, FileLocked, FileMain, FileNotes}

EmptyStore == [recipes |-> <<>>, categories |-> <<>>]

\* for ingredient in recipe_data["ingredients"]: IngredientCreate(...)
IngredientCreate(entry) ==
    IF entry.type = "header"
    THEN [quantity |-> NoneStr, unit |-> NoneStr, name |-> entry.text, is_header |-> 1]
    ELSE [quantity |-> entry.quantity, unit |-> entry.unit, name |-> entry.name,
          is_header |-> 0]

\* for i, direction in enumerate(...): DirectionCreate(step_number=i+1, ...);
\* Python's i is one less than the index here.
DirectionCreatesZeroBased(directions) ==
    [i \in 1..Len(directions) |-> [step_number |-> i - 1, description |-> directions[i]]]

DirectionCreates(directions) ==
    [i \in 1..Len(directions) |->
        [step_number |-> (i - 1) + 1, description |-> directions[i]]]

RecipeCreate(rec) ==
    [name |-> rec.name, source |-> rec.source, rating |-> rec.rating,
     categories |-> rec.categories,
     ingredients |-> [i \in 1..Len(rec.ingredients) |-> IngredientCreate(rec.ingredients[i])],
     directions |-> DirectionCreates(rec.directions)]

get_category_by_name(categories, name) ==
    \E i \in 1..Len(categories) : categories[i] = name

\* The category table after get_or_create_category(db, name).
get_or_create_category(categories, name) ==
    IF get_category_by_name(categories, name) THEN categories ELSE Append(categories, name)

RECURSIVE GetOrCreateAll(_, _)
GetOrCreateAll(categories, names) ==
    IF names = <<>>
    THEN categories
    ELSE GetOrCreateAll(get_or_create_category(categories, Head(names)), Tail(names))

\* Recipe.directions is ordered by step_number when it is read.
RECURSIVE OrderByStepNumber(_)
OrderByStepNumber(rows) ==
    IF rows = <<>>
    THEN <<>>
    ELSE LET m == CHOOSE i \in 1..Len(rows) :
                    \A j \in 1..Len(rows) :
                        \/ rows[i].step_number < rows[j].step_number
                        \/ rows[i].step_number = rows[j].step_number /\ i <= j
         IN  <<rows[m]>> \o OrderByStepNumber([k \in 1..(Len(rows) - 1) |->
                                                   IF k < m THEN rows[k] ELSE rows[k + 1]])

\* create_recipe: the categories are committed one by one as they are made,
\* the recipe and its rows by the last commit, which the database may refuse.
create_recipe(store, recipe, commit_fails) ==
    LET categories == GetOrCreateAll(store.categories, recipe.categories)
    IN  IF commit_fails
        THEN [raises |-> TRUE, message |-> "OperationalError",
              store |-> [store EXCEPT !.categories = categories]]
        ELSE [raises |-> FALSE, message |-> "",
              store |-> [recipes |-> Append(store.recipes, recipe),
                         categories |-> categories]]

\* scrape_recipe_from_file(file_path): open() fails, or what extract_recipe
\* makes of the file's text.
scrape_recipe_from_file ==
    [file \in Files |->
        IF ~file.readable
        THEN [status |-> "OSError", message |-> "Permission denied", record |-> <<>>]
        ELSE extract_recipe(file.doc)]

\* The RecipeCreate that import_recipe_from_file builds from the record.
recipe_schema ==
    [file \in Files |->
        IF scrape_recipe_from_file[file].status = "ok"
        THEN <<RecipeCreate(scrape_recipe_from_file[file].record[1])>>
        ELSE <<>>]

import_recipe_from_file(store, file) ==
    IF scrape_recipe_from_file[file].status # "ok"
    THEN [raises |-> TRUE, message |-> scrape_recipe_from_file[file].message,
          store |-> store]
    ELSE create_recipe(store, recipe_schema[file][1], file.commit_fails)

\* import_recipe of import_recipe.py: what it returns, the line it prints
\* after "Importing recipe from ...", the store, and whether an exception
\* leaves it (except Exception catches all of them).
import_recipe_uncaught(store, file) ==
    LET r == import_recipe_from_file(store, file)
    IN  [ok |-> ~r.raises, propagates |-> r.raises,
         kind |-> IF r.raises THEN "traceback" ELSE "imported",
         message |-> r.message, store |-> r.store]

import_recipe(store, file) ==
    LET r == import_recipe_from_file(store, file)
    IN  [ok |-> ~r.raises, propagates |-> FALSE,
         kind |-> IF r.raises THEN "error" ELSE "imported",
         message |-> r.message, store |-> r.store]

----------------------------------------------------------------------------
(* Scraping one document: PaprikaRecipeScraper(html).extract_recipe().     *)

ScrapeIdle == doc = PlainDocument /\ result = NotRun

InitScrape ==
    /\ doc \in Documents(LineElements)
    /\ result = NotRun

ExtractRecipe ==
    /\ result.status = "not_run"
    /\ result' = extract_recipe(doc)
    /\ UNCHANGED <<doc, consVars, batchVars, storeVars>>

----------------------------------------------------------------------------
(* Consolidating one meal plan: the loops of all_ingredients, one          *)
(* ingredient at a time.  ri and ii are the positions of the two loops.    *)

ConsIdle ==
    /\ recipes = <<>> /\ ri = 1 /\ ii = 1
    /\ ingredients_dict = <<>> /\ cons_pc = "idle" /\ cons_out = <<>>

InitCons ==
    /\ recipes \in RecipeLists(IngredientRows)
    /\ ri = 1 /\ ii = 1
    /\ ingredients_dict = <<>>
    /\ cons_pc = "loop"
    /\ cons_out = <<>>

\* The row the inner loop is at.
Current == recipes[ri][ii]

AtIngredient == cons_pc = "loop" /\ ri <= Len(recipes) /\ ii <= Len(recipes[ri])

\* One pass of the inner loop body; a ValueError ends the property.
VisitIngredient ==
    /\ AtIngredient
    /\ LET r == LoopBody(ingredients_dict, Current)
       IN  /\ ingredients_dict' = r.dict
           /\ cons_pc' = IF r.raises THEN "raised" ELSE "loop"
           /\ ii' = IF r.raises THEN ii ELSE ii + 1
    /\ UNCHANGED <<recipes, ri, cons_out, scrapeVars, batchVars, storeVars>>

\* The inner loop is through: the outer loop takes the next recipe.
NextRecipe ==
    /\ cons_pc = "loop" /\ ri <= Len(recipes) /\ ii > Len(recipes[ri])
    /\ ri' = ri + 1
    /\ ii' = 1
    /\ UNCHANGED <<recipes, ingredients_dict, cons_pc, cons_out, scrapeVars, batchVars, storeVars>>

\* return list(ingredients_dict.values())
ReturnList ==
    /\ cons_pc = "loop" /\ ri > Len(recipes)
    /\ cons_out' = Values(ingredients_dict)
    /\ cons_pc' = "done"
    /\ UNCHANGED <<recipes, ri, ii, ingredients_dict, scrapeVars, batchVars, storeVars>>

----------------------------------------------------------------------------
(* Specifications: the scraper on every document, and the consolidation on *)
(* every recipe list.                                                      *)

\* An Optional value: None keeps a value of the field's type as a filler.
Some(v) == [present |-> TRUE, value |-> v]

NoString == [present |-> FALSE, value |-> ""]

NoInt == [present |-> FALSE, value |-> 0]

NoList == [present |-> FALSE, value |-> <<>>]

\* A request that supplies nothing, and the record of no call.
EmptyRequest ==
    [name |-> NoString, source |-> NoString, rating |-> NoInt,
     prep_time |-> NoString, cook_time |-> NoString, categories |-> NoList,
     ingredients |-> NoList, directions |-> NoList, recipe_ids |-> NoList,
     update_categories_only |-> FALSE]

NoCall ==
    [op |-> "none", id |-> NoInt, request |-> EmptyRequest, crud |-> "",
     response |-> "", ret |-> "", raises |-> ""]

\* The application's store is not in use.
StoreIdle ==
    /\ tables = [recipes |-> <<>>, meal_plans |-> <<>>, categories |-> <<>>]
    /\ last = NoCall /\ calls = 0 /\ sessions = <<>>

\* The batch importer is not running.
BatchIdle ==
    /\ argv = <<>> /\ ai = 1 /\ ei = 1 /\ success_count = 0
    /\ db = EmptyStore /\ stdout = <<>> /\ batch_pc = "idle" /\ exit_status = "running"

Init == InitScrape /\ ConsIdle /\ BatchIdle /\ StoreIdle

Next == ExtractRecipe

Spec == Init /\ [][Next]_vars

InitConsolidation == ScrapeIdle /\ InitCons /\ BatchIdle /\ StoreIdle

NextCons == VisitIngredient \/ NextRecipe \/ ReturnList

SpecCons == InitConsolidation /\ [][NextCons]_vars

----------------------------------------------------------------------------
(* The batch importer: main() of import_recipe.py over the path arguments. *)

MaxPaths == 3

\* A path argument: a file, a directory with its entries in the order the
\* system lists them, or a path that is neither.
PathArg(kind, files) == [kind |-> kind, files |-> files]

\* The arguments that stand for k paths: a directory counts as its entries,
\* and as one path when it has none.
ArgsOfSize(k) ==
    {PathArg("dir", e) : e \in [1..k -> Files]} \cup
    (IF k = 1
     THEN {PathArg("file", <<f>>) : f \in Files}
             \cup {PathArg("missing", <<>>), PathArg("dir", <<>>)}
     ELSE {})

RECURSIVE Batches(_)
Batches(n) ==
    {<<>>} \cup UNION {{<<a>> \o rest : a \in ArgsOfSize(k), rest \in Batches(n - k)} :
                        k \in 1..n}

\* The argument lists a run may be started with.
ArgumentLists == Batches(MaxPaths)

\* Path(path).glob('*.html')
IsHtml(f) == f.html

Glob(entries) == SelectSeq(entries, IsHtml)

Line(kind, path, message, s, t) ==
    [kind |-> kind, path |-> path, message |-> message, s |-> s, t |-> t]

\* Before the program is started.
InitBatch ==
    /\ argv = <<>>
    /\ ai = 1 /\ ei = 1 /\ success_count = 0
    /\ db = EmptyStore /\ stdout = <<>> /\ batch_pc = "shell" /\ exit_status = "running"

\* python import_recipe.py <paths>: the program starts with its arguments.
Invoke ==
    /\ batch_pc = "shell"
    /\ argv' \in ArgumentLists
    /\ batch_pc' = "start"
    /\ UNCHANGED <<ai, ei, success_count, db, stdout, exit_status, scrapeVars, consVars, storeVars>>

\* if len(sys.argv) < 2: print usage; return
Usage ==
    /\ batch_pc = "start" /\ Len(argv) + 1 < 2
    /\ stdout' = Append(stdout, Line("usage", <<0, 0>>, "", 0, 0))
    /\ batch_pc' = "exit"
    /\ exit_status' = "0"
    /\ UNCHANGED <<argv, ai, ei, success_count, db, scrapeVars, consVars, storeVars>>

\* success_count = 0, and the loop over sys.argv[1:] starts.
BeginLoop ==
    /\ batch_pc = "start" /\ ~(Len(argv) + 1 < 2)
    /\ success_count' = 0
    /\ batch_pc' = "loop"
    /\ UNCHANGED <<argv, ai, ei, db, stdout, exit_status, scrapeVars, consVars, storeVars>>

AtArg == batch_pc = "loop" /\ ai <= Len(argv)

\* The two prints, the call of import_recipe in its own session and the
\* count, for the file at path; an exception that leaves import_recipe ends
\* the program.
ImportAt(path, file) ==
    \E r \in {import_recipe(db, file)} :
        /\ db' = r.store
        /\ stdout' = stdout \o <<Line("importing", path, "", 0, 0),
                                 Line(r.kind, path, r.message, 0, 0)>>
        /\ success_count' = IF r.ok THEN success_count + 1 ELSE success_count
        /\ batch_pc' = IF r.propagates THEN "crashed" ELSE "loop"
        /\ exit_status' = IF r.propagates THEN "1" ELSE exit_status

\* os.path.isfile(path)
ImportFileArg ==
    /\ AtArg /\ argv[ai].kind = "file"
    /\ ImportAt(<<ai, 0>>, argv[ai].files[1])
    /\ ai' = ai + 1
    /\ UNCHANGED <<argv, ei, scrapeVars, consVars, storeVars>>

\* os.path.isdir(path): one .html file of the directory.
ImportDirEntry ==
    /\ AtArg /\ argv[ai].kind = "dir" /\ ei <= Len(Glob(argv[ai].files))
    /\ ImportAt(<<ai, ei>>, Glob(argv[ai].files)[ei])
    /\ ei' = ei + 1
    /\ UNCHANGED <<argv, ai, scrapeVars, consVars, storeVars>>

\* The directory has no further .html file.
LeaveDir ==
    /\ AtArg /\ argv[ai].kind = "dir" /\ ei > Len(Glob(argv[ai].files))
    /\ ai' = ai + 1
    /\ ei' = 1
    /\ UNCHANGED <<argv, success_count, db, stdout, batch_pc, exit_status,
                   scrapeVars, consVars, storeVars>>

\* Neither a file nor a directory.
FileNotFound ==
    /\ AtArg /\ argv[ai].kind = "missing"
    /\ stdout' = Append(stdout, Line("not_found", <<ai, 0>>, "", 0, 0))
    /\ ai' = ai + 1
    /\ UNCHANGED <<argv, ei, success_count, db, batch_pc, exit_status,
                   scrapeVars, consVars, storeVars>>

\* print(f"Import complete. Successfully imported {success_count} of
\* {len(sys.argv) - 1} recipes."), and main returns.
Summary ==
    /\ batch_pc = "loop" /\ ai > Len(argv)
    /\ stdout' = Append(stdout, Line("summary", <<0, 0>>, "", success_count,
                                     (Len(argv) + 1) - 1))
    /\ batch_pc' = "exit"
    /\ exit_status' = "0"
    /\ UNCHANGED <<argv, ai, ei, success_count, db, scrapeVars, consVars, storeVars>>

InitImport == ScrapeIdle /\ ConsIdle /\ InitBatch /\ StoreIdle

NextBatch ==
    \/ Invoke \/ Usage \/ BeginLoop \/ ImportFileArg \/ ImportDirEntry
    \/ LeaveDir \/ FileNotFound \/ Summary

SpecBatch == InitImport /\ [][NextBatch]_vars

\* main runs to its end: each step of it is taken when it can be.
FairSpecBatch == SpecBatch /\ WF_vars(NextBatch)

----------------------------------------------------------------------------
(* The store behind the web routes and the MCP tools: the tables of         *)
(* app/models.py and the functions of app/crud.py.  tables.recipes and     *)
(* tables.meal_plans map the ids in use to their rows; a row holds its     *)
(* collections (category names, recipe ids, ingredient and direction rows) *)
(* as they are read back.                                                  *)

Contains(seq, x) == \E i \in 1..Len(seq) : seq[i] = x

Without(seq, x) == LET Other(y) == y # x IN SelectSeq(seq, Other)

\* What the session writes for a many-to-many collection at a flush: the
\* members that were not in the collection as loaded are inserted, one row
\* for each time they occur, the loaded members no longer there are deleted;
\* two equal rows violate the primary key of the association table.
Flush(original, current) ==
    LET IsNew(x) == ~Contains(original, x)
        IsKept(x) == Contains(current, x)
        added == SelectSeq(current, IsNew)
    IN  [raises |-> \E i \in 1..Len(added), j \in 1..Len(added) :
                        i < j /\ added[i] = added[j],
         rows |-> SelectSeq(original, IsKept) \o added]

\* The loop "for category_name in categories" of the update functions: a
\* name in skip is passed over, the others are looked up or created and
\* appended to the collection; create_category commits, which flushes the
\* collection as it stands.
RECURSIVE AttachCategories(_, _, _)
AttachCategories(names, skip, st) ==
    IF names = <<>> \/ st.raises
    THEN st
    ELSE IF Contains(skip, Head(names))
         THEN AttachCategories(Tail(names), skip, st)
         ELSE IF get_category_by_name(st.table, Head(names))
              THEN AttachCategories(Tail(names), skip,
                                    [st EXCEPT !.current = Append(@, Head(names))])
              ELSE IF Flush(st.original, st.current).raises
                   THEN [st EXCEPT !.raises = TRUE]
                   ELSE AttachCategories(Tail(names), skip,
                            [table |-> Append(st.table, Head(names)),
                             original |-> Flush(st.original, st.current).rows,
                             current |-> Append(Flush(st.original, st.current).rows,
                                                Head(names)),
                             raises |-> FALSE, committed |-> TRUE])

Attaching(table, original, current) ==
    [table |-> table, original |-> original, current |-> current,
     raises |-> FALSE, committed |-> FALSE]

Returns(ret, raises, t) == [ret |-> ret, raises |-> raises, tables |-> t]

\* crud.update_recipe
update_recipe_upserting(t, id, data) ==
    Returns("entity", "",
            [t EXCEPT !.recipes = [i \in (DOMAIN t.recipes) \cup {id} |->
                                      IF i = id THEN data ELSE t.recipes[i]]])

update_recipe(t, id, data) ==
    IF id \notin DOMAIN t.recipes
    THEN Returns("None", "", t)
    ELSE LET row == t.recipes[id]
             a == AttachCategories(data.categories, <<>>,
                                   Attaching(t.categories, row.categories, <<>>))
             f == Flush(a.original, a.current)
             scalars == [row EXCEPT !.name = data.name, !.source = data.source,
                                    !.rating = data.rating,
                                    !.prep_time = data.prep_time,
                                    !.cook_time = data.cook_time]
         IN  IF a.raises \/ f.raises
             THEN Returns("None", "IntegrityError",
                          [t EXCEPT !.categories = a.table,
                                    !.recipes[id] =
                                        IF a.committed
                                        THEN [scalars EXCEPT !.categories = a.original]
                                        ELSE row])
             ELSE Returns("entity", "",
                          [t EXCEPT !.categories = a.table,
                                    !.recipes[id] =
                                        [scalars EXCEPT !.categories = f.rows,
                                                        !.ingredients = data.ingredients,
                                                        !.directions = data.directions]])

\* crud.update_recipe_categories: "category_name in existing" compares the
\* name with Category objects and never holds, so no name is passed over.
update_recipe_categories_appending(t, id, names) ==
    IF id \notin DOMAIN t.recipes
    THEN Returns("None", "", t)
    ELSE Returns("entity", "",
                 [t EXCEPT !.categories = GetOrCreateAll(t.categories, names),
                           !.recipes[id].categories = @ \o names])

update_recipe_categories(t, id, names) ==
    IF id \notin DOMAIN t.recipes
    THEN Returns("None", "", t)
    ELSE LET row == t.recipes[id]
             a == AttachCategories(names, <<>>,
                                   Attaching(t.categories, row.categories, row.categories))
             f == Flush(a.original, a.current)
         IN  IF a.raises \/ f.raises
             THEN Returns("None", "IntegrityError",
                          [t EXCEPT !.categories = a.table,
                                    !.recipes[id].categories = a.original])
             ELSE Returns("entity", "",
                          [t EXCEPT !.categories = a.table,
                                    !.recipes[id].categories = f.rows])

\* crud.delete_recipe: the rows of the recipe go with it, and so do its
\* rows in meal_plan_recipe.
delete_recipe_always_true(t, id) ==
    Returns("True", "", t)

delete_recipe(t, id) ==
    IF id \notin DOMAIN t.recipes
    THEN Returns("False", "", t)
    ELSE Returns("True", "",
                 [t EXCEPT !.recipes = [i \in (DOMAIN t.recipes) \ {id} |-> t.recipes[i]],
                           !.meal_plans = [m \in DOMAIN t.meal_plans |->
                                [t.meal_plans[m] EXCEPT !.recipe_ids = Without(@, id)]]])

\* crud.update_meal_plan
update_meal_plan(t, id, data) ==
    IF id \notin DOMAIN t.meal_plans
    THEN Returns("None", "", t)
    ELSE LET Stored(recipe_id) == recipe_id \in DOMAIN t.recipes
             f == Flush(t.meal_plans[id].recipe_ids, SelectSeq(data.recipe_ids, Stored))
         IN  IF f.raises
             THEN Returns("None", "IntegrityError", t)
             ELSE Returns("entity", "",
                          [t EXCEPT !.meal_plans[id].name = data.name,
                                    !.meal_plans[id].recipe_ids = f.rows])

\* crud.update_meal_plan_categories: the names the meal plan had when the
\* call began are passed over.
update_meal_plan_categories(t, id, names) ==
    IF id \notin DOMAIN t.meal_plans
    THEN Returns("None", "", t)
    ELSE LET row == t.meal_plans[id]
             a == AttachCategories(names, row.categories,
                                   Attaching(t.categories, row.categories, row.categories))
             f == Flush(a.original, a.current)
         IN  IF a.raises \/ f.raises
             THEN Returns("None", "IntegrityError",
                          [t EXCEPT !.categories = a.table,
                                    !.meal_plans[id].categories = a.original])
             ELSE Returns("entity", "",
                          [t EXCEPT !.categories = a.table,
                                    !.meal_plans[id].categories = f.rows])

\* crud.delete_meal_plan
delete_meal_plan(t, id) ==
    IF id \notin DOMAIN t.meal_plans
    THEN Returns("False", "", t)
    ELSE Returns("True", "",
                 [t EXCEPT !.meal_plans =
                              [m \in (DOMAIN t.meal_plans) \ {id} |-> t.meal_plans[m]]])

----------------------------------------------------------------------------
(* The MCP tools of app/mcp/server.py and the routes of app/routes.         *)

\* Lines 100-104 and 208-217: a field of the request object is used when
\* the parameter of the same name has its default.
Coalesce(request, params) ==
    IF ~request.present
    THEN params
    ELSE [f \in DOMAIN params |->
            IF f = "update_categories_only"
            THEN IF params[f] = FALSE THEN request.value[f] ELSE params[f]
            ELSE IF params[f].present THEN params[f] ELSE request.value[f]]

CategoriesOrEmpty(r) == IF r.categories.present THEN r.categories.value ELSE <<>>

Replies(response, crud, r) ==
    [response |-> response, crud |-> crud, ret |-> r.ret, raises |-> r.raises,
     tables |-> r.tables]

ToolReplies(crud, r) ==
    Replies(IF r.raises # "" THEN "error"
            ELSE IF r.ret = "entity" THEN "model" ELSE "None", crud, r)

\* update_meal_plan of server.py.  The module never imports schemas, so the
\* statement of line 127 raises NameError.
update_meal_plan_tool_renaming(t, meal_plan_id, request, params) ==
    LET r == Coalesce(request, params)
        u == update_meal_plan_categories(t, meal_plan_id.value, CategoriesOrEmpty(r))
    IN  IF meal_plan_id.present /\ r.name.present /\ u.ret = "entity"
        THEN ToolReplies("update_meal_plan_categories",
                 Returns(u.ret, u.raises,
                         [u.tables EXCEPT !.meal_plans[meal_plan_id.value].name =
                                              r.name.value]))
        ELSE ToolReplies("update_meal_plan_categories", u)

update_meal_plan_tool(t, meal_plan_id, request, params) ==
    LET r == Coalesce(request, params)
    IN  IF meal_plan_id.present /\ r.update_categories_only
        THEN ToolReplies("update_meal_plan_categories",
                 update_meal_plan_categories(t, meal_plan_id.value, CategoriesOrEmpty(r)))
        ELSE IF ~meal_plan_id.present /\ ~r.name.present
             THEN ToolReplies("", Returns("", "ValueError", t))
             ELSE ToolReplies("", Returns("", "NameError", t))

\* update_recipe of server.py; NameError at line 243, 254 or 261.
update_recipe_tool(t, recipe_id, request, params) ==
    LET r == Coalesce(request, params)
    IN  IF recipe_id.present /\ r.update_categories_only
        THEN ToolReplies("update_recipe_categories",
                 update_recipe_categories(t, recipe_id.value, CategoriesOrEmpty(r)))
        ELSE IF ~recipe_id.present /\ ~r.name.present
             THEN ToolReplies("", Returns("", "ValueError", t))
             ELSE ToolReplies("", Returns("", "NameError", t))

\* The routes answer 404 when crud finds nothing under the id.
RouteReplies(crud, r) ==
    Replies(IF r.raises # "" THEN "500"
            ELSE IF r.ret \in {"None", "False"} THEN "404" ELSE "200", crud, r)

(* Inputs: the stores a call may find, the ids and the requests.            *)

MaxCalls == 1

RowPie ==
    [name |-> "Pie", source |-> Some("Mom"), rating |-> 4,
     prep_time |-> Some("10 min"), cook_time |-> NoString,
     categories |-> <<"A", "B">>, ingredients |-> <<"flour">>,
     directions |-> <<"Bake.">>]

RowTart ==
    [name |-> "Tart", source |-> NoString, rating |-> 0,
     prep_time |-> NoString, cook_time |-> NoString,
     categories |-> <<>>, ingredients |-> <<>>, directions |-> <<>>]

PlanWeek == [name |-> "Week", recipe_ids |-> <<1>>, categories |-> <<"A">>]

PlanParty == [name |-> "Party", recipe_ids |-> <<1, 2>>, categories |-> <<>>]

StoreOfTwo ==
    [recipes |-> (1 :> RowPie) @@ (2 :> RowTart),
     meal_plans |-> (1 :> PlanWeek) @@ (2 :> PlanParty),
     categories |-> <<"A", "B">>]

StoreOfOne ==
    [recipes |-> (1 :> RowPie), meal_plans |-> (1 :> PlanWeek),
     categories |-> <<"A", "B">>]

InitialTables == {StoreOfTwo, StoreOfOne}

CallIds == {1, 2, 3}

OptionalIds == {NoInt} \cup {Some(i) : i \in CallIds}

CategoryLists == {<<>>, <<"A">>, <<"C">>, <<"A", "C">>, <<"C", "C">>}

OptionalCategoryLists == {NoList} \cup {Some(l) : l \in CategoryLists}

MealPlanRequests ==
    {[EmptyRequest EXCEPT !.name = n, !.recipe_ids = r, !.categories = c,
                          !.update_categories_only = o] :
        n \in {NoString, Some("Feast")}, r \in {NoList, Some(<<2>>)},
        c \in OptionalCategoryLists, o \in BOOLEAN}

FullRecipeRequest ==
    [EmptyRequest EXCEPT !.name = Some("Cake"), !.source = Some("Book"),
                         !.rating = Some(5), !.prep_time = Some("5 min"),
                         !.cook_time = Some("1 h"), !.ingredients = Some(<<"egg">>),
                         !.directions = Some(<<"Mix.">>)]

RecipeRequestBases ==
    {EmptyRequest, FullRecipeRequest,
     [EmptyRequest EXCEPT !.name = Some("Cake")],
     [EmptyRequest EXCEPT !.rating = Some(5)],
     [EmptyRequest EXCEPT !.ingredients = Some(<<"egg">>)]}

RecipeRequests ==
    {[b EXCEPT !.categories = c, !.update_categories_only = o] :
        b \in RecipeRequestBases, c \in OptionalCategoryLists, o \in BOOLEAN}

\* The bodies of the PUT routes, schemas.RecipeCreate and schemas.MealPlanCreate.
RecipeBodies ==
    {[name |-> "Cake", source |-> Some("Book"), rating |-> 5,
      prep_time |-> NoString, cook_time |-> Some("1 h"), categories |-> c,
      ingredients |-> <<"egg">>, directions |-> <<"Mix.">>] :
        c \in {<<>>, <<"A", "C">>, <<"C", "C">>}}

MealPlanBodies ==
    {[name |-> "Feast", recipe_ids |-> r, categories |-> <<>>] :
        r \in {<<>>, <<2>>, <<2, 2>>, <<1, 3>>}}

AsRequest(body) ==
    [f \in DOMAIN EmptyRequest |->
        IF f = "update_categories_only" THEN FALSE
        ELSE IF f \notin DOMAIN body THEN EmptyRequest[f]
        ELSE IF f \in {"source", "prep_time", "cook_time"} THEN body[f]
        ELSE Some(body[f])]

NoRequest == [present |-> FALSE, value |-> EmptyRequest]

(* The calls.                                                               *)

Called(op, id, request, u) ==
    /\ calls < MaxCalls
    /\ calls' = calls + 1
    /\ tables' = u.tables
    /\ last' = [op |-> op, id |-> id, request |-> request, crud |-> u.crud,
                response |-> u.response, ret |-> u.ret, raises |-> u.raises]
    /\ UNCHANGED <<scrapeVars, consVars, batchVars, sessions>>

UpdateMealPlanTool ==
    \E id \in OptionalIds, r \in MealPlanRequests, by_request \in BOOLEAN :
        \E u \in {update_meal_plan_tool(tables, id,
                                        IF by_request THEN Some(r) ELSE NoRequest,
                                        IF by_request THEN EmptyRequest ELSE r)} :
            Called("update_meal_plan_tool", id, r, u)

UpdateRecipeTool ==
    \E id \in OptionalIds, r \in RecipeRequests, by_request \in BOOLEAN :
        \E u \in {update_recipe_tool(tables, id,
                                     IF by_request THEN Some(r) ELSE NoRequest,
                                     IF by_request THEN EmptyRequest ELSE r)} :
            Called("update_recipe_tool", id, r, u)

UpdateRecipeRoute ==
    \E id \in CallIds, body \in RecipeBodies :
        \E u \in {RouteReplies("update_recipe", update_recipe(tables, id, body))} :
            Called("update_recipe_route", Some(id), AsRequest(body), u)

DeleteRecipeRoute ==
    \E id \in CallIds :
        \E u \in {RouteReplies("delete_recipe", delete_recipe(tables, id))} :
            Called("delete_recipe_route", Some(id), EmptyRequest, u)

UpdateMealPlanRoute ==
    \E id \in CallIds, body \in MealPlanBodies :
        \E u \in {RouteReplies("update_meal_plan", update_meal_plan(tables, id, body))} :
            Called("update_meal_plan_route", Some(id), AsRequest(body), u)

DeleteMealPlanRoute ==
    \E id \in CallIds :
        \E u \in {RouteReplies("delete_meal_plan", delete_meal_plan(tables, id))} :
            Called("delete_meal_plan_route", Some(id), EmptyRequest, u)

InitStore ==
    /\ ScrapeIdle /\ ConsIdle /\ BatchIdle
    /\ tables \in InitialTables
    /\ last = NoCall /\ calls = 0 /\ sessions = <<>>

NextStore ==
    \/ UpdateMealPlanTool
    \/ UpdateRecipeTool
    \/ UpdateRecipeRoute
    \/ DeleteRecipeRoute
    \/ UpdateMealPlanRoute
    \/ DeleteMealPlanRoute

SpecStore == InitStore /\ [][NextStore]_vars

(* Sessions that run crud.create_recipe at the same time, each on its own  *)
(* connection: a step is one statement or commit of one session.            *)

MaxSessions == 2

NewRecipeBodies ==
    {[name |-> "Cake", source |-> NoString, rating |-> 0, prep_time |-> NoString,
      cook_time |-> NoString, categories |-> c, ingredients |-> <<"egg">>,
      directions |-> <<"Mix.">>] :
        c \in {<<>>, <<"A">>, <<"B">>, <<"A", "B">>, <<"B", "A">>}}

\* A session at the start of create_recipe: k is the position of the loop
\* over recipe.categories, found the result of its last lookup.
Opened(body) ==
    [pc |-> "select", recipe |-> body, k |-> 1, found |-> FALSE,
     categories |-> <<>>, raises |-> ""]

NextId(rows) ==
    IF DOMAIN rows = {} THEN 1
    ELSE 1 + CHOOSE i \in DOMAIN rows : \A j \in DOMAIN rows : j <= i

\* get_category_by_name: the SELECT of one session sees what is committed.
SelectCategory(s) ==
    /\ sessions[s].pc = "select"
    /\ sessions[s].k <= Len(sessions[s].recipe.categories)
    /\ sessions' = [sessions EXCEPT
           ![s].found = get_category_by_name(tables.categories,
                                             sessions[s].recipe.categories[sessions[s].k]),
           ![s].pc = "selected"]
    /\ UNCHANGED <<scrapeVars, consVars, batchVars, tables, last, calls>>

\* get_or_create_category found the category: create_recipe appends it.
AppendCategory(s) ==
    /\ sessions[s].pc = "selected" /\ sessions[s].found
    /\ sessions' = [sessions EXCEPT
           ![s].categories = Append(@, sessions[s].recipe.categories[sessions[s].k]),
           ![s].k = @ + 1, ![s].pc = "select"]
    /\ UNCHANGED <<scrapeVars, consVars, batchVars, tables, last, calls>>

\* create_category: INSERT and commit.  Category.name is unique, so the
\* INSERT of a name that another session has committed since the lookup
\* raises IntegrityError out of create_recipe.
CreateCategory(s) ==
    /\ sessions[s].pc = "selected" /\ ~sessions[s].found
    /\ LET name == sessions[s].recipe.categories[sessions[s].k]
       IN  IF Contains(tables.categories, name)
           THEN /\ sessions' = [sessions EXCEPT ![s].raises = "IntegrityError",
                                                ![s].pc = "raised"]
                /\ UNCHANGED tables
           ELSE /\ tables' = [tables EXCEPT !.categories = Append(@, name)]
                /\ sessions' = [sessions EXCEPT ![s].categories = Append(@, name),
                                                ![s].k = @ + 1, ![s].pc = "select"]
    /\ UNCHANGED <<scrapeVars, consVars, batchVars, last, calls>>

\* The rest of create_recipe: the recipe, its rows and its associations are
\* inserted and committed.
CommitRecipe(s) ==
    /\ sessions[s].pc = "select"
    /\ sessions[s].k > Len(sessions[s].recipe.categories)
    /\ tables' = [tables EXCEPT !.recipes =
                     (NextId(tables.recipes) :>
                         [sessions[s].recipe EXCEPT !.categories = sessions[s].categories])
                     @@ tables.recipes]
    /\ sessions' = [sessions EXCEPT ![s].pc = "returned"]
    /\ UNCHANGED <<scrapeVars, consVars, batchVars, last, calls>>

InitSessions ==
    /\ ScrapeIdle /\ ConsIdle /\ BatchIdle
    /\ tables \in {[recipes |-> <<>>, meal_plans |-> <<>>, categories |-> c] :
                       c \in {<<>>, <<"A">>}}
    /\ last = NoCall /\ calls = 0
    /\ sessions \in [1..MaxSessions -> {Opened(body) : body \in NewRecipeBodies}]

NextSessions ==
    \E s \in 1..MaxSessions :
        \/ SelectCategory(s)
        \/ AppendCategory(s)
        \/ CreateCategory(s)
        \/ CommitRecipe(s)

SpecSessions == InitSessions /\ [][NextSessions]_vars

----------------------------------------------------------------------------
(* Properties of the scraper (specification Spec).                         *)

Scraped == result.status # "not_run"

\* The ingredient list of the record extract_recipe returned.
ScrapedIngredients == result.record[1].ingredients

Lines == doc.ingredients.lines

\* Document and result of a run that returned a record from an ingredients
\* container.
ScrapedLines == Scraped /\ result.status = "ok" /\ doc.ingredients.present

Emphasized(element) == element.has_strong

TrimmedText(element) == Strip(ElementText(element))

\* A line that has no emphasized element and no text but whitespace.
BlankLine(element) == ~Emphasized(element) /\ TrimmedText(element) = <<>>

\* The place in the output of the entry of line i: blank lines before it
\* have no entry.
EntryIndex(i) == Cardinality({j \in 1..i : ~BlankLine(Lines[j])})

\* C1: a document without div.recipe makes extract_recipe fail with the
\* no-recipe-found ValueError and yield no record, whatever else it holds.
C1_NoRecipeFound ==
    (Scraped /\ ~doc.recipe_div) =>
        /\ result.status = "ValueError"
        /\ result.message = NoRecipeFound
        /\ result.record = <<>>

C1_Witness ==
    /\ Scraped /\ ~doc.recipe_div
    /\ doc.name # NoneStr /\ doc.rating.present /\ doc.rating.has_value
    /\ doc.ingredients.present /\ doc.ingredients.lines # <<>>
    /\ doc.directions.present /\ doc.directions.lines # <<>>
    /\ result.status = "ValueError" /\ result.record = <<>>

\* C8: every ingredient line that has an emphasized element gives an
\* ingredient entry, never a header entry, whatever the length of its text.
C8_EmphasizedIsItem ==
    ScrapedLines =>
        \A i \in 1..Len(Lines) :
            Emphasized(Lines[i]) =>
                /\ EntryIndex(i) \in 1..Len(ScrapedIngredients)
                /\ ScrapedIngredients[EntryIndex(i)].type = "ingredient"

C8_Witness ==
    /\ ScrapedLines
    /\ \E i \in 1..Len(Lines) :
        /\ Emphasized(Lines[i]) /\ Strip(Lines[i].strong) = <<>>
        /\ Len(TrimmedText(Lines[i])) < HeaderLenThreshold
        /\ ScrapedIngredients[EntryIndex(i)].type = "ingredient"
    /\ \E i \in 1..Len(Lines) :
        /\ ~Emphasized(Lines[i]) /\ ~BlankLine(Lines[i])
        /\ ScrapedIngredients[EntryIndex(i)].type = "header"

\* C9: a line without an emphasized element and with fewer than 30 characters
\* of trimmed text gives the header entry of that text when the text is not
\* empty and no entry at all when it is; a line without an emphasized element
\* and with 30 characters or more gives an ingredient entry.
C9_ShortPlainIsHeader ==
    ScrapedLines =>
        /\ Len(ScrapedIngredients) = Cardinality({j \in 1..Len(Lines) : ~BlankLine(Lines[j])})
        /\ \A i \in 1..Len(Lines) :
            (~Emphasized(Lines[i]) /\ TrimmedText(Lines[i]) # <<>>) =>
                IF Len(TrimmedText(Lines[i])) < 30
                THEN /\ ScrapedIngredients[EntryIndex(i)].type = "header"
                     /\ ScrapedIngredients[EntryIndex(i)].text = TrimmedText(Lines[i])
                ELSE ScrapedIngredients[EntryIndex(i)].type = "ingredient"

C9_Witness ==
    /\ ScrapedLines
    /\ Len(Lines) = 2
    /\ BlankLine(Lines[1])
    /\ ~Emphasized(Lines[2]) /\ Len(TrimmedText(Lines[2])) = 29
    /\ Len(ScrapedIngredients) = 1
    /\ ScrapedIngredients[1].type = "header"
    /\ ScrapedIngredients[1].text = TrimmedText(Lines[2])

\* A line that is not a header line: it has an emphasized element, or 30
\* characters or more.
ItemLine(element) == Emphasized(element) \/ Len(TrimmedText(element)) >= 30

\* The line text with the first occurrence of the emphasized text removed.
Remainder(element) ==
    IF Emphasized(element)
    THEN Strip(ReplaceFirst(TrimmedText(element), Strip(element.strong)))
    ELSE TrimmedText(element)

\* The place of the first whitespace character of s, 0 when it has none.
FirstWhitespace(s) ==
    LET at == {i \in 1..Len(s) : s[i] \in WhitespaceChars}
    IN  IF at = {} THEN 0 ELSE CHOOSE i \in at : \A j \in at : i <= j

\* s split at its first whitespace into at most two parts.
WhitespaceParts(s) ==
    IF FirstWhitespace(s) = 0
    THEN <<s>>
    ELSE <<SubSeq(s, 1, FirstWhitespace(s) - 1),
           Strip(SubSeq(s, FirstWhitespace(s) + 1, Len(s)))>>

HasUnit(parts) == Len(parts) = 2 /\ Len(parts[1]) < 10

\* C10: of an item line the emphasized text is the quantity; the remainder is
\* split at the first whitespace into at most two parts; two parts with a
\* first part shorter than 10 characters are unit and name, otherwise the unit
\* is absent and the name is the whole remainder.
C10_SplitAtFirstWhitespace ==
    ScrapedLines =>
        \A i \in 1..Len(Lines) :
            ItemLine(Lines[i]) =>
                LET entry == ScrapedIngredients[EntryIndex(i)]
                    parts == WhitespaceParts(Remainder(Lines[i]))
                IN  /\ entry.type = "ingredient"
                    /\ Emphasized(Lines[i]) => entry.quantity = Strip(Lines[i].strong)
                    /\ entry.unit = IF HasUnit(parts) THEN parts[1] ELSE <<>>
                    /\ entry.name = IF HasUnit(parts) THEN parts[2] ELSE Remainder(Lines[i])

----------------------------------------------------------------------------
(* Properties of the consolidation (specification SpecCons).  A run that   *)
(* float() ends with ValueError (cons_pc = "raised") returns no list; the  *)
(* properties of the list are about the runs that return one.              *)

\* The rows of the recipes in the order the loops visit them.
RECURSIVE Flat(_)
Flat(rs) == IF rs = <<>> THEN <<>> ELSE Head(rs) \o Flat(Tail(rs))

HeaderRow(row) == row.is_header # 0

\* The consolidation key of a row or of an output entry.
ClaimKey(x) == <<Lower(x.name), x.unit>>

\* A quantity that is an integer literal: present, not empty, digits 0-9 only.
IntegerLiteral(q) ==
    q # NoneStr /\ q # <<>> /\ \A i \in 1..Len(q) : q[i] \in AsciiDigits

\* The place in the dictionary of the entry the row falls on, 0 without one.
EntryFor(d, row) ==
    IF \E i \in 1..Len(d) : ClaimKey(d[i].value) = ClaimKey(row)
    THEN CHOOSE i \in 1..Len(d) : ClaimKey(d[i].value) = ClaimKey(row)
    ELSE 0

\* The loop is at an item whose key has an entry already.
AtRepeatedKey ==
    AtIngredient /\ ~HeaderRow(Current) /\ EntryFor(ingredients_dict, Current) # 0

ExistingQuantity == ingredients_dict[EntryFor(ingredients_dict, Current)].value.quantity

Returned == cons_pc = "done"

OutputKeys(out) == {ClaimKey(out[i]) : i \in 1..Len(out)}

\* C2: an item arriving on a present key, both quantities integer literals,
\* makes the entry's quantity their sum written as a decimal integer without
\* a fractional part ("2" and "1" give "3").
C2_IntegerSum ==
    [][(AtRepeatedKey /\ IntegerLiteral(ExistingQuantity)
                      /\ IntegerLiteral(Current.quantity))
        => ingredients_dict'[EntryFor(ingredients_dict, Current)].value.quantity
            = IntDigits(FloatValue(ExistingQuantity) + FloatValue(Current.quantity))]_vars

\* C3: an item arriving on a present key, one of the two quantities absent,
\* empty or no integer literal, leaves the entry (and the dictionary) as it was.
C3_NonNumericLeavesEntry ==
    [][(AtRepeatedKey /\ ~(IntegerLiteral(ExistingQuantity)
                           /\ IntegerLiteral(Current.quantity)))
        => ingredients_dict' = ingredients_dict]_vars

C3_Witness ==
    /\ Returned
    /\ Flat(recipes) = <<RowFlour2Cups, RowFlourHalfCups, RowFlourNoQuantity>>
    /\ cons_out = <<[name |-> RowFlour2Cups.name, quantity |-> <<"2">>,
                     unit |-> RowFlour2Cups.unit]>>

\* C4: items fall into one entry exactly when their lowercased names and their
\* units are equal: the entries of the list have distinct keys, and its keys
\* are the keys of the items.
C4_OneEntryPerKey ==
    Returned =>
        /\ \A i \in 1..Len(cons_out), j \in 1..Len(cons_out) :
            ClaimKey(cons_out[i]) = ClaimKey(cons_out[j]) => i = j
        /\ OutputKeys(cons_out)
            = {ClaimKey(Flat(recipes)[i]) :
                i \in {j \in 1..Len(Flat(recipes)) : ~HeaderRow(Flat(recipes)[j])}}

C4_Witness ==
    /\ Returned
    /\ Flat(recipes) = <<RowFlour2Cups, RowFlour1NoUnit, RowFlour1Cups>>
    /\ Len(cons_out) = 2
    /\ cons_out[1].unit = RowFlour2Cups.unit
    /\ cons_out[2].unit = NoneStr

\* The recipes without their header rows.
NotHeaderRow(row) == ~HeaderRow(row)

NoHeaders(rs) == [r \in 1..Len(rs) |-> SelectSeq(rs[r], NotHeaderRow)]

\* C5: header rows neither appear in the list nor change an entry: the outcome
\* for the recipes is the outcome for the recipes with the header rows removed.
C5_HeadersIgnored ==
    /\ Returned => all_ingredients(NoHeaders(recipes)) = [raises |-> FALSE, out |-> cons_out]
    /\ cons_pc = "raised" => all_ingredients(NoHeaders(recipes)).raises

C5_Witness ==
    /\ Returned
    /\ Flat(recipes) = <<RowHeaderFlour, RowFlour2Cups, RowHeaderFlour>>
    /\ cons_out = <<[name |-> RowFlour2Cups.name, quantity |-> <<"2">>,
                     unit |-> RowFlour2Cups.unit]>>

\* The items of flat that are the first of their key, in order.
RECURSIVE FirstOccurrences(_, _)
FirstOccurrences(flat, n) ==
    IF n = 0
    THEN <<>>
    ELSE FirstOccurrences(flat, n - 1)
         \o (IF /\ ~HeaderRow(flat[n])
                /\ \A j \in 1..(n - 1) :
                     HeaderRow(flat[j]) \/ ClaimKey(flat[j]) # ClaimKey(flat[n])
             THEN <<flat[n]>>
             ELSE <<>>)

\* C6: the entries are in the order in which their keys first occur, each
\* under the name as written at that first occurrence.
C6_FirstOccurrenceOrder ==
    Returned =>
        LET first == FirstOccurrences(Flat(recipes), Len(Flat(recipes)))
        IN  /\ Len(cons_out) = Len(first)
            /\ \A i \in 1..Len(first) :
                /\ cons_out[i].name = first[i].name
                /\ cons_out[i].unit = first[i].unit

C6_Witness ==
    /\ Returned
    /\ Flat(recipes) = <<RowFlour1NoUnit, RowFlour1Cups, RowFlour2Cups>>
    /\ Len(cons_out) = 2
    /\ cons_out[1].name = RowFlour1NoUnit.name
    /\ cons_out[2].name = RowFlour1Cups.name

\* C7: the keys of the list are the same for every order of the recipes, and
\* when a first part of the recipes is consolidated and the rest merged in.
C7_KeySetOrderIndependent ==
    Returned =>
        /\ \A p \in Permutations(1..Len(recipes)) :
            LET r == all_ingredients([i \in 1..Len(recipes) |-> recipes[p[i]]])
            IN  ~r.raises => OutputKeys(r.out) = OutputKeys(cons_out)
        /\ \A n \in 0..Len(recipes) :
            LET part == RunLoops(<<>>, SubSeq(recipes, 1, n))
                rest == RunLoops(part.dict, SubSeq(recipes, n + 1, Len(recipes)))
            IN  (~part.raises /\ ~rest.raises)
                    => OutputKeys(Values(rest.dict)) = OutputKeys(cons_out)

C7_Witness ==
    /\ Returned
    /\ Len(recipes) = 3
    /\ \A r \in 1..3 : recipes[r] # <<>>
    /\ ClaimKey(recipes[1][1]) = ClaimKey(recipes[3][1])
    /\ ClaimKey(recipes[1][1]) # ClaimKey(recipes[2][1])
    /\ \A r \in 1..3 : ~HeaderRow(recipes[r][1])
    /\ Cardinality(OutputKeys(cons_out)) = 2

----------------------------------------------------------------------------
(* Properties of the field extractors (specification Spec).                *)

ScrapedOk == Scraped /\ result.status = "ok"

ScrapedRecord == result.record[1]

\* C11: every ingredient entry the classifier makes has a name that is not
\* empty, also for a line that is nothing but its emphasized quantity.
C11_ItemNameNotEmpty ==
    (ScrapedOk /\ doc.ingredients.present) =>
        \A i \in 1..Len(ScrapedIngredients) :
            ScrapedIngredients[i].type = "ingredient" => ScrapedIngredients[i].name # <<>>

\* The rating attribute read as a signed decimal integer.
AttributeDigits(v) ==
    IF Strip(v) # <<>> /\ Head(Strip(v)) \in {"-", "+"} THEN Tail(Strip(v)) ELSE Strip(v)

AttributeIsInteger(v) == IntegerLiteral(AttributeDigits(v))

AttributeInteger(v) ==
    IF Head(Strip(v)) = "-"
    THEN 0 - FloatValue(AttributeDigits(v))
    ELSE FloatValue(AttributeDigits(v))

\* C13: a rating element with an integer rating attribute gives that integer
\* as the rating, whatever stars its text shows.
C13_AttributeWins ==
    (Scraped /\ doc.recipe_div /\ doc.rating.present /\ doc.rating.has_value
             /\ AttributeIsInteger(doc.rating.value))
        => /\ result.status = "ok"
           /\ ScrapedRecord.rating = AttributeInteger(doc.rating.value)

C13_Witness ==
    /\ ScrapedOk
    /\ doc.rating.present /\ doc.rating.has_value
    /\ doc.rating.value = <<"4">>
    /\ doc.rating.text = <<"U+2605", "U+2605", "U+2605">>
    /\ ScrapedRecord.rating = 4

\* The filled-star glyph, U+2605 BLACK STAR, and its occurrences in a text.
FilledStar == "U+2605"

FilledStars(text) == Cardinality({i \in 1..Len(text) : text[i] = FilledStar})

\* C14: a rating element without the attribute gives the number of filled
\* stars of its text as the rating.
C14_GlyphCount ==
    (ScrapedOk /\ doc.rating.present /\ ~doc.rating.has_value)
        => ScrapedRecord.rating = FilledStars(doc.rating.text)

\* C15: the rating of a record is never negative.
C15_RatingNotNegative == ScrapedOk => ScrapedRecord.rating >= 0

\* C16: the categories are the trimmed comma-separated segments of the
\* element's text, and the empty list when the text is empty or blank.
C16_Categories ==
    (ScrapedOk /\ doc.categories # NoneStr) =>
        IF Strip(doc.categories) = <<>>
        THEN ScrapedRecord.categories = <<>>
        ELSE ScrapedRecord.categories
                = [i \in 1..Len(SplitComma(doc.categories)) |->
                        Strip(SplitComma(doc.categories)[i])]

\* C17: with div.recipe there, every absent element gives its default: name
\* "", rating 0, no source, no categories, no ingredients, no directions.
C17_Defaults ==
    (Scraped /\ doc.recipe_div /\ (doc.rating.present => ~doc.rating.has_value)) =>
        /\ result.status = "ok"
        /\ doc.name = NoneStr => ScrapedRecord.name = <<>>
        /\ ~doc.rating.present => ScrapedRecord.rating = 0
        /\ doc.source = NoneStr => ScrapedRecord.source = NoneStr
        /\ doc.categories = NoneStr => ScrapedRecord.categories = <<>>
        /\ ~doc.ingredients.present => ScrapedRecord.ingredients = <<>>
        /\ ~doc.directions.present => ScrapedRecord.directions = <<>>

C17_Witness ==
    /\ ScrapedOk
    /\ doc = BareDocument
    /\ ScrapedRecord = [name |-> <<>>, rating |-> 0, categories |-> <<>>,
                        source |-> NoneStr, ingredients |-> <<>>, directions |-> <<>>]

\* C18: with div.recipe there, extract_recipe returns a record.
C18_FailsOnlyWithoutRoot == (Scraped /\ doc.recipe_div) => result.status = "ok"

\* C19: all_ingredients never ends with an error.
C19_ConsolidationNeverFails == cons_pc # "raised"

----------------------------------------------------------------------------
(* Properties of the import (specifications SpecBatch and FairSpecBatch).  *)

\* This step stored a recipe, and the file it came from.
ImportedNow == Len(db'.recipes) = Len(db.recipes) + 1

CurrentFile ==
    IF argv[ai].kind = "file" THEN argv[ai].files[1] ELSE Glob(argv[ai].files)[ei]

StoredSteps(recipe) == OrderByStepNumber(recipe.directions)

\* C12: the steps of an imported recipe are numbered 1, 2, ..., n in the
\* order of the document's instruction lines, one step for each line,
\* whatever digits the lines hold.
C12_StepsNumbered ==
    [][ImportedNow =>
         LET steps == StoredSteps(db'.recipes[Len(db'.recipes)])
             lines == CurrentFile.doc.directions.lines
         IN  /\ Len(steps) = Len(lines)
             /\ \A i \in 1..Len(steps) :
                    /\ steps[i].step_number = i
                    /\ steps[i].description = Strip(lines[i])]_vars

C12_Witness ==
    \E i \in 1..Len(db.recipes) :
        /\ Len(StoredSteps(db.recipes[i])) = 3
        /\ StoredSteps(db.recipes[i])[1] =
              [step_number |-> 1, description |-> <<"3", ".", " ", "G", "o">>]
        /\ StoredSteps(db.recipes[i])[3] =
              [step_number |-> 3, description |-> <<"1", " ", "M", "i", "x">>]

\* The documents a run has to attempt, in order: each file argument and each
\* .html file of each directory argument.
PathsOfArg(a) ==
    IF argv[a].kind = "file"
    THEN <<<<a, 0>>>>
    ELSE IF argv[a].kind = "dir"
         THEN [e \in 1..Len(Glob(argv[a].files)) |-> <<a, e>>]
         ELSE <<>>

RECURSIVE PathsFrom(_)
PathsFrom(a) == IF a > Len(argv) THEN <<>> ELSE PathsOfArg(a) \o PathsFrom(a + 1)

AllPaths == PathsFrom(1)

FileAt(path) ==
    IF path[2] = 0 THEN argv[path[1]].files[1] ELSE Glob(argv[path[1]].files)[path[2]]

\* The document cannot be imported: unreadable, not parsed, or not stored.
Fails(file) == import_recipe_from_file(EmptyStore, file).raises

Succeeds(path) == ~Fails(FileAt(path))

IsAttempt(line) == line.kind = "importing"

IsOutcome(line) == line.kind \in {"imported", "error", "traceback"}

Attempts == SelectSeq(stdout, IsAttempt)

Outcomes == SelectSeq(stdout, IsOutcome)

Succeeded == SelectSeq(AllPaths, Succeeds)

\* Every document was attempted once, in order; each failure was reported
\* for its document; each other document is stored and counted.
EveryDocumentHandled ==
    /\ Len(Attempts) = Len(AllPaths)
    /\ Len(Outcomes) = Len(AllPaths)
    /\ \A i \in 1..Len(AllPaths) :
          /\ i <= Len(Attempts) => Attempts[i].path = AllPaths[i]
          /\ i <= Len(Outcomes) =>
                /\ Outcomes[i].path = AllPaths[i]
                /\ Outcomes[i].kind = IF Succeeds(AllPaths[i]) THEN "imported" ELSE "error"
    /\ success_count = Len(Succeeded)
    /\ Len(db.recipes) = Len(Succeeded)
    /\ \A i \in 1..Len(Succeeded) :
          i <= Len(db.recipes) =>
             db.recipes[i] = RecipeCreate(extract_recipe(FileAt(Succeeded[i]).doc).record[1])

\* C20: a batch always runs to its end, and at its end every file argument
\* and every .html file of every directory argument has been attempted, the
\* failing documents are reported one by one and all others are stored and
\* counted, wherever the failures lie.
C20_FailureIsolation ==
    /\ [](batch_pc = "exit" => EveryDocumentHandled)
    /\ <>(batch_pc = "exit")

C20_Witness ==
    /\ batch_pc = "exit"
    /\ Len(Outcomes) = 3
    /\ Outcomes[1].kind = "imported" /\ Outcomes[1].path = <<1, 0>>
    /\ Outcomes[2].kind = "error" /\ Outcomes[2].path = <<2, 1>>
    /\ Outcomes[3].kind = "imported" /\ Outcomes[3].path = <<2, 2>>
    /\ success_count = 2
    /\ Len(db.recipes) = 2

----------------------------------------------------------------------------
(* Further properties of the batch importer, the ingredient classifier and *)
(* the consolidation.                                                      *)

BatchEnded == batch_pc \in {"exit", "crashed"}

UsageError == Len(argv) = 0

\* C21: a run of the batch importer ends with a non-zero exit status exactly
\* when it was started without a path argument.
C21_ExitStatus == BatchEnded => (exit_status # "0" <=> UsageError)

\* The entry comes from the line: a header holds the line's trimmed text, an
\* ingredient the trimmed text of the line's emphasized element as quantity.
ComesFrom(entry, element) ==
    IF entry.type = "header"
    THEN ~Emphasized(element) /\ entry.text = TrimmedText(element)
    ELSE entry.quantity = (IF Emphasized(element) THEN Strip(element.strong) ELSE <<>>)

\* C22: the entries of the ingredient list stand in the order of the lines
\* they come from, one entry for each line that is not blank and none for a
\* blank line.
C22_SourceOrder ==
    ScrapedLines =>
        /\ Len(ScrapedIngredients) = Cardinality({j \in 1..Len(Lines) : ~BlankLine(Lines[j])})
        /\ \A i \in 1..Len(Lines) :
              (~BlankLine(Lines[i]) /\ EntryIndex(i) \in 1..Len(ScrapedIngredients))
                 => ComesFrom(ScrapedIngredients[EntryIndex(i)], Lines[i])

C22_Witness ==
    /\ ScrapedLines
    /\ Len(Lines) = 2
    /\ ~Emphasized(Lines[1])
    /\ Emphasized(Lines[2])
    /\ Len(ScrapedIngredients) = 2
    /\ ScrapedIngredients[1].type = "header"
    /\ ScrapedIngredients[2].type = "ingredient"
    /\ ScrapedIngredients[2].quantity = Strip(Lines[2].strong)

\* The items that fall on the key of an entry, in the order of the loops.
Contributions(entry) ==
    LET OnKey(row) == ~HeaderRow(row) /\ ClaimKey(row) = ClaimKey(entry)
    IN  SelectSeq(Flat(recipes), OnKey)

RECURSIVE SumOfQuantities(_)
SumOfQuantities(rows) ==
    IF rows = <<>> THEN 0 ELSE FloatValue(Head(rows).quantity) + SumOfQuantities(Tail(rows))

\* The number a quantity string stands for, written "3" or "3.0"; -1 for
\* any other string.
QuantityValue(q) ==
    IF IntegerLiteral(q)
    THEN FloatValue(q)
    ELSE IF /\ q # NoneStr /\ Len(q) > 2
            /\ SubSeq(q, Len(q) - 1, Len(q)) = <<".", "0">>
            /\ IntegerLiteral(SubSeq(q, 1, Len(q) - 2))
         THEN FloatValue(SubSeq(q, 1, Len(q) - 2))
         ELSE 0 - 1

\* C27: an entry on whose key two or more items fall, all with integer
\* literals as quantities, holds the sum of all of them.
C27_SumOfAllContributions ==
    Returned =>
        \A i \in 1..Len(cons_out) :
            (/\ Len(Contributions(cons_out[i])) >= 2
             /\ \A k \in 1..Len(Contributions(cons_out[i])) :
                    IntegerLiteral(Contributions(cons_out[i])[k].quantity))
                => QuantityValue(cons_out[i].quantity)
                      = SumOfQuantities(Contributions(cons_out[i]))

\* C28: the summary line of a run gives the number of documents imported
\* and the number of documents attempted.
C28_SummaryCounts ==
    (batch_pc = "exit" /\ ~UsageError) =>
        /\ stdout # <<>>
        /\ stdout[Len(stdout)].kind = "summary"
        /\ stdout[Len(stdout)].s = Len(Succeeded)
        /\ stdout[Len(stdout)].t = Len(AllPaths)
        /\ stdout[Len(stdout)].s <= stdout[Len(stdout)].t

----------------------------------------------------------------------------
(* Properties of the store operations (specification SpecStore).           *)

RecipeFunctions == {"update_recipe", "update_recipe_categories", "delete_recipe"}

DeleteFunctions == {"delete_recipe", "delete_meal_plan"}

\* The ids under which the function of crud named f finds an entity.
StoredIds(t, f) ==
    IF f \in RecipeFunctions THEN DOMAIN t.recipes ELSE DOMAIN t.meal_plans

\* A step that is a call which reached a function of crud.
CrudCall == calls' = calls + 1 /\ last'.crud # ""

\* C26: a crud operation addressed to an id that does not exist reports
\* not-found (False from the deletes, None from the updates) and leaves every
\* table as it was; a delete on an existing id returns True and the entity
\* is gone afterwards.
C26_NotFound ==
    [][CrudCall =>
        IF last'.id.value \notin StoredIds(tables, last'.crud)
        THEN /\ last'.ret = (IF last'.crud \in DeleteFunctions THEN "False" ELSE "None")
             /\ last'.raises = ""
             /\ tables' = tables
        ELSE last'.crud \in DeleteFunctions =>
                /\ last'.ret = "True"
                /\ last'.id.value \notin StoredIds(tables', last'.crud)]_vars

C26_Witness ==
    /\ last.crud = "delete_recipe" /\ last.ret = "False" /\ last.response = "404"
    /\ last.id.value = 2
    /\ tables = StoreOfOne

ToolCall == calls' = calls + 1 /\ last'.op \in {"update_meal_plan_tool", "update_recipe_tool"}

\* The row with its categories put back to those of the row before.
ButCategories(after, before) == [after EXCEPT !.categories = before.categories]

\* C25: a call of an MCP update tool with update_categories_only true
\* creates and deletes no meal plan or recipe, leaves every other meal plan
\* and recipe as it was, and changes nothing but the categories of the one
\* it addresses, whatever else the call supplies.
C25_CategoriesOnly ==
    [][(ToolCall /\ last'.request.update_categories_only) =>
        /\ DOMAIN tables'.recipes = DOMAIN tables.recipes
        /\ DOMAIN tables'.meal_plans = DOMAIN tables.meal_plans
        /\ \A i \in DOMAIN tables.recipes :
              IF last'.op = "update_recipe_tool" /\ last'.id = Some(i)
              THEN ButCategories(tables'.recipes[i], tables.recipes[i]) = tables.recipes[i]
              ELSE tables'.recipes[i] = tables.recipes[i]
        /\ \A i \in DOMAIN tables.meal_plans :
              IF last'.op = "update_meal_plan_tool" /\ last'.id = Some(i)
              THEN ButCategories(tables'.meal_plans[i], tables.meal_plans[i])
                       = tables.meal_plans[i]
              ELSE tables'.meal_plans[i] = tables.meal_plans[i]]_vars

C25_Witness ==
    /\ last.op = "update_meal_plan_tool" /\ last.id = Some(1)
    /\ last.request.update_categories_only
    /\ last.request.name = Some("Feast") /\ last.request.recipe_ids = Some(<<2>>)
    /\ last.request.categories = Some(<<"A", "C">>)
    /\ last.response = "model"
    /\ tables.meal_plans[1] = [PlanWeek EXCEPT !.categories = <<"A", "C">>]

CategoryFunctions == {"update_recipe_categories", "update_meal_plan_categories"}

\* The category names of the entity that the function of crud named f finds
\* under id.
CategoriesOf(t, f, id) ==
    IF f \in RecipeFunctions THEN t.recipes[id].categories
    ELSE t.meal_plans[id].categories

Occurrences(seq, x) == Cardinality({i \in 1..Len(seq) : seq[i] = x})

\* The function of crud named f, called once more.
Again(f, t, id, names) ==
    IF f = "update_recipe_categories"
    THEN update_recipe_categories(t, id, names)
    ELSE update_meal_plan_categories(t, id, names)

Range(seq) == {seq[i] : i \in 1..Len(seq)}

\* A step that is a call of the tool named op on an id it finds stored.
ToolCallOnStored(op) ==
    /\ ToolCall /\ last'.op = op /\ last'.id.present
    /\ last'.id.value \in (IF op = "update_recipe_tool" THEN DOMAIN tables.recipes
                           ELSE DOMAIN tables.meal_plans)

\* C24: after an update of a stored meal plan that supplies a categories
\* list, the category names of the meal plan are exactly the supplied names;
\* an empty list leaves the meal plan without categories.
C24_CategoriesReplaced ==
    [][(ToolCallOnStored("update_meal_plan_tool") /\ last'.request.categories.present) =>
        LET id == last'.id.value
            names == last'.request.categories.value
        IN  /\ id \in DOMAIN tables'.meal_plans
            /\ Range(tables'.meal_plans[id].categories) = Range(names)]_vars

SuppliedOrKept(op, field) ==
    \/ last'.request[field].present
    \/ IF op = "update_recipe_tool"
       THEN tables'.recipes[last'.id.value][field] = tables.recipes[last'.id.value][field]
       ELSE tables'.meal_plans[last'.id.value][field]
                = tables.meal_plans[last'.id.value][field]

\* C23: an update of a stored meal plan or recipe through the MCP tools with
\* update_categories_only false is carried out, and every field the call
\* leaves as None keeps its stored value: name and recipe list of a meal
\* plan; name, source, rating, times, ingredients and directions of a recipe.
C23_NoneFieldsKept ==
    [][/\ (ToolCallOnStored("update_meal_plan_tool")
              /\ ~last'.request.update_categories_only) =>
            /\ last'.raises = ""
            /\ \A field \in {"name", "recipe_ids"} :
                   SuppliedOrKept("update_meal_plan_tool", field)
       /\ (ToolCallOnStored("update_recipe_tool")
              /\ ~last'.request.update_categories_only) =>
            /\ last'.raises = ""
            /\ \A field \in {"name", "source", "rating", "prep_time", "cook_time",
                             "ingredients", "directions"} :
                   SuppliedOrKept("update_recipe_tool", field)]_vars

----------------------------------------------------------------------------
(* Properties of concurrent sessions (specification SpecSessions).         *)

\* C30: whatever the interleaving of the sessions, the category table holds
\* each name once and no session ends in a uniqueness error: two sessions
\* that both look up a missing name and then create it both go on.
C30_NoUniquenessError ==
    /\ \A i \in 1..Len(tables.categories) :
           Occurrences(tables.categories, tables.categories[i]) = 1
    /\ \A s \in DOMAIN sessions : sessions[s].raises = ""

============================================================================
